---- MODULE Spec2Model ----
(***************************************************************************)
(* A model of the patch subsystem of tscircuit: the patch data model and   *)
(* its validation, the library store (PatchManager), the extraction of a   *)
(* patch from a schematic, the insertion of a patch into a schematic, the  *)
(* connectivity analysis and the project manager.                          *)
(*                                                                         *)
(* Strings are sequences of one-character strings, so that the code's      *)
(* string operations (template literals, split, replace, startsWith) are   *)
(* computed and not assumed.                                               *)
(***************************************************************************)
EXTENDS Integers, Sequences, FiniteSets, TLC

VARIABLES
    now,            \* the wall clock read by Date.now() / new Date(), in ms
    nCalls,         \* number of calls made so far (bounded by MaxCalls)
    call,           \* the last call: operation and arguments
    ret,            \* what the last call returned, or that it threw
    files,          \* patch files: path -> content
    backups,        \* the backup directory: backup name -> content
    libraryIndex,   \* PatchManager.libraryIndex, an insertion-ordered Map
    indexFile,      \* libraryDir/index.json
    overwritten,    \* history: <<path, content>> pairs an overwrite replaced
    components,     \* the schematic's components
    connections,    \* the schematic's connections
    selectedIds,    \* the selection handed to the extractor
    extracted,      \* the result of the last extraction
    globalIndex,    \* libraryIndex of the module's global PatchManager
    manifest,       \* ProjectManager.manifest: empty for null, else the
                    \* manifest as its one element
    fileIndex,      \* ProjectManager.fileIndex, an insertion-ordered Map
    pending,        \* the insert handlers that await their patch, each
                    \* with the components and connections it captured
    editedPatch     \* the patch being edited

storeVars ==
    <<files, backups, libraryIndex, indexFile, overwritten, globalIndex>>
diagramVars ==
    <<components, connections, selectedIds, extracted, pending, editedPatch>>
projectVars == <<manifest, fileIndex>>
vars == <<now, nCalls, call, ret, files, backups, libraryIndex, indexFile,
          overwritten, globalIndex, manifest, fileIndex, components,
          connections, selectedIds, extracted, pending, editedPatch>>

(***************************************************************************)
(* Bounds of the model.                                                    *)
(***************************************************************************)
MaxTime == 1
\* calls made on a store whose writes all succeed
MaxCalls == 3
\* calls made on a store whose writes may fail
MaxFaultyCalls == 2

(***************************************************************************)
(* Strings.                                                                *)
(***************************************************************************)
\* The value JavaScript calls undefined; a template literal prints it as
\* the word, which no string of single characters equals.
Undefined == <<"undefined">>

RECURSIVE IndexOf(_, _, _)
IndexOf(s, ch, i) ==
    IF i > Len(s) THEN 0
    ELSE IF s[i] = ch THEN i
    ELSE IndexOf(s, ch, i + 1)

\* s.split(ch)[0]
SplitFirst(s, ch) ==
    LET k == IndexOf(s, ch, 1)
    IN  IF k = 0 THEN s ELSE SubSeq(s, 1, k - 1)

\* s.split(ch)[1]
SplitSecond(s, ch) ==
    LET k == IndexOf(s, ch, 1)
    IN  IF k = 0 THEN Undefined
        ELSE SplitFirst(SubSeq(s, k + 1, Len(s)), ch)

\* s.startsWith(prefix)
StartsWith(s, prefix) ==
    /\ Len(s) >= Len(prefix)
    /\ SubSeq(s, 1, Len(prefix)) = prefix

RECURSIVE DropWs(_)
DropWs(s) ==
    IF s # <<>> /\ Head(s) = " " THEN DropWs(Tail(s)) ELSE s

\* s.replace(/\s+/g, rep)
RECURSIVE ReplaceWs(_, _)
ReplaceWs(s, rep) ==
    IF s = <<>> THEN <<>>
    ELSE IF Head(s) = " " THEN rep \o ReplaceWs(DropWs(Tail(s)), rep)
    ELSE <<Head(s)>> \o ReplaceWs(Tail(s), rep)

DigitChar(d) == <<"0", "1", "2", "3", "4", "5", "6", "7", "8", "9">>[d + 1]

\* `${n}` for a non-negative integer n
RECURSIVE NumStr(_)
NumStr(n) ==
    IF n < 10 THEN <<DigitChar(n)>>
    ELSE NumStr(n \div 10) \o <<DigitChar(n % 10)>>

RECURSIVE Flatten(_)
Flatten(ss) == IF ss = <<>> THEN <<>> ELSE Head(ss) \o Flatten(Tail(ss))

Range(s) == {s[i] : i \in DOMAIN s}

(***************************************************************************)
(* The patch model (patch.ts).                                             *)
(***************************************************************************)
PinPrefix == <<"p", "i", "n", "_">>

\* createEmptyPatch(name) at time t
createEmptyPatch(name, t) ==
    [schemaVersion |-> <<"1", ".", "0">>,
     metadata |-> [name |-> name, version |-> <<"1", ".", "0", ".", "0">>,
                   createdAt |-> t, modifiedAt |-> t],
     components |-> <<>>,
     nets |-> <<>>,
     interfacePins |-> <<>>]

\* isConnected without the comparison of pin names
IsConnectedByComponent(patch, component, pinName) ==
    \E i \in DOMAIN patch.nets :
        \E j \in DOMAIN patch.nets[i].connections :
            patch.nets[i].connections[j].componentId = component.id

\* patch.nets.some(net => net.connections.some(conn => ...))
IsConnected(patch, component, pinName) ==
    \E i \in DOMAIN patch.nets :
        \E j \in DOMAIN patch.nets[i].connections :
            /\ patch.nets[i].connections[j].componentId = component.id
            /\ patch.nets[i].connections[j].pinName = pinName

UnconnectedPinErrors(patch, component) ==
    LET keys == [k \in DOMAIN component.properties |-> component.properties[k].key]
        bad(key) == StartsWith(key, PinPrefix) /\ ~IsConnected(patch, component, key)
    IN  [k \in DOMAIN SelectSeq(keys, bad) |->
            [type |-> "unconnected-pin", severity |-> "error",
             componentId |-> component.id, netId |-> Undefined,
             pinId |-> SelectSeq(keys, bad)[k]]]

FloatingNetErrors(patch) ==
    LET floating(net) == Len(net.connections) < 2
        nets == SelectSeq(patch.nets, floating)
    IN  [k \in DOMAIN nets |->
            [type |-> "floating-net", severity |-> "warning",
             componentId |-> Undefined, netId |-> nets[k].id,
             pinId |-> Undefined]]

validatePatch(patch) ==
    Flatten([c \in DOMAIN patch.components |->
                UnconnectedPinErrors(patch, patch.components[c])])
    \o FloatingNetErrors(patch)

\* HasErrors with every in place of some
HasErrorsEvery(errors) ==
    /\ errors # <<>>
    /\ \A i \in DOMAIN errors : errors[i].severity = "error"

\* HasErrors that takes a warning for an error
HasErrorsAny(errors) == errors # <<>>

\* errors.some(e => e.severity === "error")
HasErrors(errors) == \E i \in DOMAIN errors : errors[i].severity = "error"


\* json.f || default: the default when the object has no field f or holds a
\* falsy value (the empty string) there; an empty array is not falsy
OrElse(json, f, default) ==
    IF f \notin DOMAIN json THEN default
    ELSE IF json[f] = <<>> THEN default
    ELSE json[f]

\* circuitJsonToPatch(json) at time t
circuitJsonToPatch(json, t) ==
    [schemaVersion |-> OrElse(json, "schemaVersion", <<"1", ".", "0">>),
     metadata |-> OrElse(json, "metadata",
                         [name |-> <<"U", "n", "n", "a", "m", "e", "d", " ",
                                     "P", "a", "t", "c", "h">>,
                          version |-> <<"1", ".", "0", ".", "0">>,
                          createdAt |-> t, modifiedAt |-> t]),
     components |-> OrElse(json, "components", <<>>),
     nets |-> OrElse(json, "nets", <<>>),
     interfacePins |-> OrElse(json, "interfacePins", <<>>)]

(***************************************************************************)
(* The file system as the store sees it.                                   *)
(***************************************************************************)
\* File contents: JSON text of a value, or what an interrupted write leaves
Json(v) == [kind |-> "json", value |-> v]
Torn == [kind |-> "torn"]
NoFile == [kind |-> "absent"]

\* join(dir, name)
Path(dir, name) == [dir |-> dir, name |-> name]

\* writeFileSync(path, content) on the directory fs. The write succeeds
\* ("ok"), fails before it touches the file ("clean"), or fails after the
\* file was truncated and partly written ("torn"); it throws in the last two.
WriteFile(fs, path, content, outcome) ==
    CASE outcome = "ok" -> (path :> content) @@ fs
      [] outcome = "clean" -> fs
      [] outcome = "torn" -> (path :> Torn) @@ fs

\* The outcome of the write at `step` under fault flt
NoFault == [step |-> "none", kind |-> "ok"]
FaultAt(flt, step) == IF flt.step = step THEN flt.kind ELSE "ok"

(***************************************************************************)
(* PatchManager (patch-manager.ts). A store state st is a record of the    *)
(* patch files, the backups, the in-memory index and the index file; each  *)
(* method maps a store state to the next one and to what it returns.       *)
(***************************************************************************)
ExtTscircuit == <<".", "t", "s", "c", "i", "r", "c", "u", "i", "t">>
ExtBackup == <<".", "b", "a", "c", "k", "u", "p">>
PatchIdPrefix == <<"p", "a", "t", "c", "h", "_">>
DeletedPrefix == <<"d", "e", "l", "e", "t", "e", "d", "_">>

\* Map.prototype.has / get / set / delete on an insertion-ordered Map,
\* kept as the sequence of its values (every value carries its key, id)
MapHas(m, id) == \E i \in DOMAIN m : m[i].id = id
MapGet(m, id) == m[CHOOSE i \in DOMAIN m : m[i].id = id]
MapSet(m, id, e) ==
    IF MapHas(m, id)
    THEN [i \in DOMAIN m |-> IF m[i].id = id THEN e ELSE m[i]]
    ELSE Append(m, e)
MapDelete(m, id) == SelectSeq(m, LAMBDA e : e.id # id)

\* What a method did: the store state it leaves, whether it threw, the value
\* it returned, and the step that failed ("none" when none did)
Result(st, failed, threw, value) ==
    [st |-> st, failed |-> failed, threw |-> threw, value |-> value]

\* saveLibraryIndex that leaves the index file alone
saveLibraryIndexSkipped(st, outcome) == Result(st, "none", FALSE, Undefined)

\* private saveLibraryIndex(): writeFileSync(indexPath, JSON.stringify(data))
saveLibraryIndex(st, outcome) ==
    Result([st EXCEPT !.indexFile =
                CASE outcome = "ok" -> Json(st.libraryIndex)
                  [] outcome = "clean" -> st.indexFile
                  [] outcome = "torn" -> Torn],
           IF outcome = "ok" THEN "none" ELSE "index",
           outcome # "ok", Undefined)

\* the id updateLibraryIndex derives from the patch name
NameId(name) == PatchIdPrefix \o ReplaceWs(name, <<"_">>)

\* private updateLibraryIndex(patch, filepath)
updateLibraryIndex(st, patch, filepath, t, outcome) ==
    LET id == NameId(patch.metadata.name)
        entry == [id |-> id, name |-> patch.metadata.name,
                  filePath |-> filepath, metadata |-> patch.metadata,
                  lastUsed |-> t]
    IN  saveLibraryIndex(
            [st EXCEPT !.libraryIndex = MapSet(st.libraryIndex, id, entry)],
            outcome)

\* the file name savePatch generates when it is given none
DefaultFileName(patch) ==
    ReplaceWs(patch.metadata.name, <<"_">>) \o <<"_", "v">>
        \o patch.metadata.version \o ExtTscircuit

\* savePatch(patch, filename?) at time t under fault flt. The value of a
\* completed call is the file path; `patch` in the result is the caller's
\* object after the call (its modifiedAt is refreshed).
savePatch(st, patch0, filename, t, flt) ==
    IF HasErrors(validatePatch(patch0))
    THEN Result(st, "validate", TRUE, Undefined) @@ [patch |-> patch0]
    ELSE
    LET patch == [patch0 EXCEPT !.metadata.modifiedAt = t]
        name == IF filename = Undefined \/ filename = <<>>
                THEN DefaultFileName(patch) ELSE filename
        filepath == Path("patchDir", name)
        exists == filepath \in DOMAIN st.files
        backupName == name \o <<".">> \o NumStr(t) \o ExtBackup
        bOut == IF exists THEN FaultAt(flt, "backup") ELSE "ok"
        st1 == IF exists
               THEN [st EXCEPT !.backups =
                        WriteFile(@, backupName, st.files[filepath], bOut)]
               ELSE st
        fOut == FaultAt(flt, "patch")
        st2 == [st1 EXCEPT
                  !.files = WriteFile(@, filepath, Json(patch), fOut),
                  !.overwritten =
                      IF exists /\ fOut # "clean"
                      THEN @ \cup {<<filepath, st.files[filepath]>>}
                      ELSE @]
    IN  IF bOut # "ok"
        THEN Result(st1, "backup", TRUE, Undefined) @@ [patch |-> patch]
        ELSE IF fOut # "ok"
        THEN Result(st2, "patch", TRUE, Undefined) @@ [patch |-> patch]
        ELSE LET r == updateLibraryIndex(st2, patch, filepath, t,
                                         FaultAt(flt, "index"))
             IN  Result(r.st, r.failed, r.threw,
                        IF r.threw THEN Undefined ELSE filepath)
                 @@ [patch |-> patch]

\* loadPatch that drops the index when it finds no file
loadPatchForgetting(st, filepath, t) ==
    IF filepath \notin DOMAIN st.files \/ st.files[filepath].kind # "json"
    THEN Result([st EXCEPT !.libraryIndex = <<>>], "load", TRUE, Undefined)
    ELSE Result(st, "none", FALSE,
                circuitJsonToPatch(st.files[filepath].value, t))

\* loadPatch(filepath): throws when the file is missing or is not JSON
loadPatch(st, filepath, t) ==
    IF filepath \notin DOMAIN st.files \/ st.files[filepath].kind # "json"
    THEN Result(st, "load", TRUE, Undefined)
    ELSE Result(st, "none", FALSE,
                circuitJsonToPatch(st.files[filepath].value, t))

\* the name deletePatch gives the backup of entry's file at time t
DeletedBackupName(entry, t) ==
    DeletedPrefix \o NumStr(t) \o <<"_">> \o entry.name \o ExtTscircuit

\* copyDeleted with the file moved, not copied
moveDeleted(st, entry, t, outcome) ==
    [st EXCEPT
       !.backups = WriteFile(@, DeletedBackupName(entry, t),
                             st.files[entry.filePath], outcome),
       !.files = [q \in DOMAIN st.files \ {entry.filePath} |-> st.files[q]]]

\* deletePatch's copy of the entry's file into the backup directory
copyDeleted(st, entry, t, outcome) ==
    [st EXCEPT
       !.backups = WriteFile(@, DeletedBackupName(entry, t),
                             st.files[entry.filePath], outcome)]

\* deletePatch's try block, for an entry of the index; what it throws is
\* caught and gives false
deleteEntry(st, entry, t, flt) ==
    LET exists == entry.filePath \in DOMAIN st.files
        bOut == IF exists THEN FaultAt(flt, "backup") ELSE "ok"
        st1 == IF exists THEN copyDeleted(st, entry, t, bOut) ELSE st
        st2 == [st1 EXCEPT !.libraryIndex = MapDelete(@, entry.id)]
        r == saveLibraryIndex(st2, FaultAt(flt, "index"))
    IN  IF bOut # "ok" THEN Result(st1, "backup", FALSE, FALSE)
        ELSE Result(r.st, r.failed, FALSE, ~r.threw)

\* deletePatch that goes on without an entry: nothing to copy, nothing to
\* remove, the index is written and the call reports success
deletePatchUnguarded(st, patchId, t, flt) ==
    IF ~MapHas(st.libraryIndex, patchId)
    THEN LET r == saveLibraryIndex(st, "ok") IN Result(r.st, "none", FALSE, TRUE)
    ELSE deleteEntry(st, MapGet(st.libraryIndex, patchId), t, flt)

\* deletePatch(patchId)
deletePatch(st, patchId, t, flt) ==
    IF ~MapHas(st.libraryIndex, patchId)
    THEN Result(st, "unknown", FALSE, FALSE)
    ELSE deleteEntry(st, MapGet(st.libraryIndex, patchId), t, flt)

\* the id importPatch gives its entry
TimeId(t) == PatchIdPrefix \o NumStr(t)

\* importPatch that keys its entry as updateLibraryIndex does
importPatchNameKeyed(st, filepath, t, flt) ==
    LET l == loadPatch(st, filepath, t)
    IN  IF l.threw THEN Result(st, "load", TRUE, Undefined)
        ELSE
        LET s == savePatch(st, l.value, Undefined, t, flt)
            entry == [id |-> NameId(s.patch.metadata.name),
                      name |-> s.patch.metadata.name,
                      filePath |-> s.value, metadata |-> s.patch.metadata,
                      lastUsed |-> t]
            r == saveLibraryIndex(
                    [s.st EXCEPT !.libraryIndex = MapSet(@, entry.id, entry)],
                    FaultAt(flt, "index2"))
        IN  IF s.threw THEN Result(s.st, s.failed, TRUE, Undefined)
            ELSE Result(r.st, IF r.threw THEN "index2" ELSE "none", r.threw,
                        IF r.threw THEN Undefined ELSE entry)

\* importPatch(filepath)
importPatch(st, filepath, t, flt) ==
    LET l == loadPatch(st, filepath, t)
    IN  IF l.threw THEN Result(st, "load", TRUE, Undefined)
        ELSE
        LET s == savePatch(st, l.value, Undefined, t, flt)
            entry == [id |-> TimeId(t), name |-> s.patch.metadata.name,
                      filePath |-> s.value, metadata |-> s.patch.metadata,
                      lastUsed |-> t]
            r == saveLibraryIndex(
                    [s.st EXCEPT !.libraryIndex = MapSet(@, entry.id, entry)],
                    FaultAt(flt, "index2"))
        IN  IF s.threw THEN Result(s.st, s.failed, TRUE, Undefined)
            ELSE Result(r.st, IF r.threw THEN "index2" ELSE "none", r.threw,
                        IF r.threw THEN Undefined ELSE entry)

\* private loadLibraryIndex() on the empty Map of a new instance: the entries
\* of index.json when it is there and is JSON; what reading it throws is
\* caught
loadLibraryIndex(st) ==
    [st EXCEPT !.libraryIndex =
        IF st.indexFile.kind = "json" THEN st.indexFile.value ELSE <<>>]


(***************************************************************************)
(* The calls made on one store, and the patches they are made with.        *)
(***************************************************************************)
NameA == <<"a">>
NameAB == <<"a", " ", "b">>
Pin1 == PinPrefix \o <<"1">>
Pin2 == PinPrefix \o <<"2">>

Comp(id, name, keys) ==
    [id |-> id, name |-> name, type |-> <<"r">>,
     properties |-> [k \in DOMAIN keys |-> [key |-> keys[k], value |-> <<"1">>]],
     position |-> [x |-> 0, y |-> 0]]
Conn(componentId, pinName) == [componentId |-> componentId, pinName |-> pinName]
Net(id, name, conns) == [id |-> id, name |-> name, connections |-> conns]

WithParts(patch, comps, nets) ==
    [patch EXCEPT !.components = comps, !.nets = nets]

\* one component whose only pin slot is on a two-ended net: no result
PatchGood(name) ==
    WithParts(createEmptyPatch(name, 0),
              <<Comp(<<"r">>, <<"R">>, <<Pin1>>)>>,
              <<Net(<<"n">>, <<"N">>, <<Conn(<<"r">>, Pin1), Conn(<<"r">>, Pin2)>>)>>)
\* a pin slot on no net: an error
PatchPinError(name) ==
    WithParts(createEmptyPatch(name, 0),
              <<Comp(<<"r">>, <<"R">>, <<Pin1>>)>>, <<>>)
\* a one-ended net: a warning
PatchFloating(name) ==
    WithParts(createEmptyPatch(name, 0),
              <<Comp(<<"r">>, <<"R">>, <<Pin1>>)>>,
              <<Net(<<"n">>, <<"N">>, <<Conn(<<"r">>, Pin1)>>)>>)
\* an error and a warning
PatchErrorAndWarning(name) ==
    WithParts(createEmptyPatch(name, 0),
              <<Comp(<<"r">>, <<"R">>, <<Pin1, Pin2>>)>>,
              <<Net(<<"n">>, <<"N">>, <<Conn(<<"r">>, Pin1)>>)>>)

StorePatches ==
    {PatchGood(NameA), PatchFloating(NameA), PatchErrorAndWarning(NameA),
     PatchGood(NameAB)}

FileNames == {Undefined, <<"f">>}

\* a file outside the managed directory that importPatch may be pointed at,
\* and a path where there is no file
ExternalFiles == (Path("ext", <<"x">>) :> Json(PatchGood(NameAB)))
MissingPath == Path("ext", <<"m">>)

PatchIds == {NameId(NameA), NameId(NameAB)} \cup {TimeId(t) : t \in 0..MaxTime}

WriteSteps == {"backup", "patch", "index", "index2"}
Faults == {NoFault} \cup [step : WriteSteps, kind : {"clean", "torn"}]

\* the clock does not run backwards, and may not have advanced since the
\* last call
Ticks == {t \in {now, now + 1} : t <= MaxTime}

Store == [files |-> files, backups |-> backups, libraryIndex |-> libraryIndex,
          indexFile |-> indexFile, overwritten |-> overwritten]

\* A call of `op` at time t under fault flt, with result r. A fault whose
\* step the call never reaches is no fault.
Commit(op, args, t, flt, r) ==
    /\ flt.step \in {"none", r.failed}
    /\ now' = t
    /\ nCalls' = nCalls + 1
    /\ call' = [op |-> op, args |-> args]
    /\ ret' = [threw |-> r.threw, value |-> r.value, failed |-> r.failed]
    /\ files' = r.st.files
    /\ backups' = r.st.backups
    /\ libraryIndex' = r.st.libraryIndex
    /\ indexFile' = r.st.indexFile
    /\ overwritten' = r.st.overwritten
    /\ UNCHANGED globalIndex
    /\ UNCHANGED diagramVars
    /\ UNCHANGED projectVars

CallSavePatch(faults) ==
    \E patch \in StorePatches, filename \in FileNames, t \in Ticks, flt \in faults :
        Commit("savePatch", <<patch, filename>>, t, flt,
               savePatch(Store, patch, filename, t, flt))

CallDeletePatch(faults) ==
    \E patchId \in PatchIds, t \in Ticks, flt \in faults :
        Commit("deletePatch", <<patchId>>, t, flt,
               deletePatch(Store, patchId, t, flt))

CallImportPatch(faults) ==
    \E filepath \in DOMAIN files \cup {MissingPath}, t \in Ticks, flt \in faults :
        Commit("importPatch", <<filepath>>, t, flt,
               importPatch(Store, filepath, t, flt))

\* loadPatch writes nothing, so no write of it can fail
CallLoadPatch ==
    \E filepath \in DOMAIN files \cup {MissingPath}, t \in Ticks :
        Commit("loadPatch", <<filepath>>, t, NoFault,
               loadPatch(Store, filepath, t))

\* calls on a store whose writes all succeed
SavePatch == nCalls < MaxCalls /\ CallSavePatch({NoFault})
DeletePatch == nCalls < MaxCalls /\ CallDeletePatch({NoFault})
ImportPatch == nCalls < MaxCalls /\ CallImportPatch({NoFault})

\* calls on a store whose writes may fail
SavePatchFaulty == nCalls < MaxFaultyCalls /\ CallSavePatch(Faults)
DeletePatchFaulty == nCalls < MaxFaultyCalls /\ CallDeletePatch(Faults)
ImportPatchFaulty == nCalls < MaxFaultyCalls /\ CallImportPatch(Faults)
LoadPatchFaulty == nCalls < MaxFaultyCalls /\ CallLoadPatch

\* new PatchManager(config) over the directories of the instance before it,
\* which is dropped
Reopen ==
    /\ nCalls < MaxFaultyCalls
    /\ Commit("new", <<>>, now, NoFault,
              Result(loadLibraryIndex([Store EXCEPT !.libraryIndex = <<>>]),
                     "none", FALSE, Undefined))

NoCall == [op |-> "none", args |-> <<>>]
NoRet == [threw |-> FALSE, value |-> Undefined, failed |-> "none"]

InitCalls ==
    /\ now = 0
    /\ nCalls = 0
    /\ call = NoCall
    /\ ret = NoRet

\* a store constructed over empty directories
InitFreshStore ==
    /\ files = ExternalFiles
    /\ backups = <<>>
    /\ libraryIndex = <<>>
    /\ globalIndex = <<>>
    /\ indexFile = NoFile
    /\ overwritten = {}

InitNoDiagram ==
    /\ components = <<>>
    /\ connections = <<>>
    /\ selectedIds = {}
    /\ extracted = [threw |-> TRUE]
    /\ pending = <<>>
    /\ editedPatch = createEmptyPatch(<<"p">>, 0)

\* a ProjectManager on which createProject has not been called
InitNoProject ==
    /\ manifest = <<>>
    /\ fileIndex = <<>>

InitStore == InitCalls /\ InitFreshStore /\ InitNoDiagram /\ InitNoProject

NextStore == SavePatch \/ DeletePatch \/ ImportPatch
SpecStore == InitStore /\ [][NextStore]_vars

(***************************************************************************)
(* Two instances over the same directories: the PatchManager the server    *)
(* constructs, whose index is libraryIndex, and the global instance the    *)
(* module exports, whose index is globalIndex. Both read index.json when   *)
(* they are constructed and write it from their own Map.                   *)
(***************************************************************************)
GlobalStore == [Store EXCEPT !.libraryIndex = globalIndex]

\* a call of `op` on the global instance at time t, with result r
CommitGlobal(op, args, t, r) ==
    /\ nCalls < MaxCalls
    /\ now' = t
    /\ nCalls' = nCalls + 1
    /\ call' = [op |-> op, args |-> args]
    /\ ret' = [threw |-> r.threw, value |-> r.value, failed |-> r.failed]
    /\ files' = r.st.files
    /\ backups' = r.st.backups
    /\ globalIndex' = r.st.libraryIndex
    /\ indexFile' = r.st.indexFile
    /\ overwritten' = r.st.overwritten
    /\ UNCHANGED libraryIndex
    /\ UNCHANGED diagramVars
    /\ UNCHANGED projectVars

SavePatchGlobal ==
    \E patch \in StorePatches, filename \in FileNames, t \in Ticks :
        CommitGlobal("global.savePatch", <<patch, filename>>, t,
                     savePatch(GlobalStore, patch, filename, t, NoFault))

DeletePatchGlobal ==
    \E patchId \in PatchIds, t \in Ticks :
        CommitGlobal("global.deletePatch", <<patchId>>, t,
                     deletePatch(GlobalStore, patchId, t, NoFault))

\* both instances are constructed over empty directories
InitTwoStores == InitStore
NextTwoStores == SavePatch \/ DeletePatch \/ SavePatchGlobal \/ DeletePatchGlobal
SpecTwoStores == InitTwoStores /\ [][NextTwoStores]_vars

NextFaultyStore ==
    \/ SavePatchFaulty
    \/ DeletePatchFaulty
    \/ ImportPatchFaulty
    \/ LoadPatchFaulty
    \/ Reopen
SpecFaultyStore == InitStore /\ [][NextFaultyStore]_vars


(***************************************************************************)
(* Extraction (patchExtractor.ts, and its copy in patch-api-client.ts).    *)
(***************************************************************************)
UpperCase == <<"A", "B", "C", "D", "E", "F", "G", "H", "I", "J", "K", "L", "M",
               "N", "O", "P", "Q", "R", "S", "T", "U", "V", "W", "X", "Y", "Z">>
LowerCase == <<"a", "b", "c", "d", "e", "f", "g", "h", "i", "j", "k", "l", "m",
               "n", "o", "p", "q", "r", "s", "t", "u", "v", "w", "x", "y", "z">>

\* s.toLowerCase()
ToLowerCase(s) ==
    [i \in DOMAIN s |->
        IF \E k \in DOMAIN UpperCase : UpperCase[k] = s[i]
        THEN LowerCase[CHOOSE k \in DOMAIN UpperCase : UpperCase[k] = s[i]]
        ELSE s[i]]

\* const [compName] = endpoint.split(".")
CompNameOf(endpoint) == SplitFirst(endpoint, ".")

\* conn.connections || []
EndpointsOf(conn) ==
    IF "connections" \in DOMAIN conn THEN conn.connections ELSE <<>>

SelectedEndpoints(conn, names) ==
    SelectSeq(EndpointsOf(conn), LAMBDA e : CompNameOf(e) \in names)
ExternalEndpoints(conn, names) ==
    SelectSeq(EndpointsOf(conn), LAMBDA e : CompNameOf(e) \notin names)

\* the loop body with one interface pin for a crossing connection
ExtractConnectionOnePin(conn, names) ==
    LET sel == SelectedEndpoints(conn, names)
        ext == ExternalEndpoints(conn, names)
    IN  [nets |-> IF Len(ext) = 0 /\ Len(sel) > 0
                  THEN <<[id |-> conn.id, name |-> conn.net, connections |-> sel]>>
                  ELSE <<>>,
         pins |-> IF Len(sel) > 0 /\ Len(ext) > 0
                  THEN <<[name |-> sel[1], net |-> conn.net]>>
                  ELSE <<>>]

\* the loop body of patchExtractor.ts for one connection that is not yet
\* processed: the internal nets and the interface pins it pushes
ExtractConnection(conn, names) ==
    LET sel == SelectedEndpoints(conn, names)
        ext == ExternalEndpoints(conn, names)
    IN  [nets |-> IF Len(ext) = 0 /\ Len(sel) > 0
                  THEN <<[id |-> conn.id, name |-> conn.net, connections |-> sel]>>
                  ELSE <<>>,
         pins |-> IF Len(sel) > 0 /\ Len(ext) > 0
                  THEN [i \in DOMAIN sel |-> [name |-> sel[i], net |-> conn.net]]
                  ELSE <<>>]

\* the same loop body in patch-api-client.ts
ExtractConnectionClient(conn, names) ==
    LET sel == SelectedEndpoints(conn, names)
        ext == ExternalEndpoints(conn, names)
    IN  [nets |-> IF Len(ext) = 0 /\ Len(sel) > 0
                  THEN <<[id |-> conn.id, name |-> conn.net,
                          connections |->
                              [i \in DOMAIN sel |->
                                  [componentId |-> SplitFirst(sel[i], "."),
                                   pinName |-> SplitSecond(sel[i], ".")]]]>>
                  ELSE <<>>,
         pins |-> IF Len(sel) > 0 /\ Len(ext) > 0
                  THEN [i \in DOMAIN sel |->
                          [id |-> sel[i], name |-> sel[i],
                           internalNetName |-> conn.net,
                           type |-> <<"s", "i", "g", "n", "a", "l">>]]
                  ELSE <<>>]

\* the loop without the processedNets test
RECURSIVE ExtractLoopAll(_, _, _, _, _)
ExtractLoopAll(conns, names, processedNets, acc, client) ==
    IF conns = <<>> THEN acc
    ELSE LET r == IF client THEN ExtractConnectionClient(Head(conns), names)
                  ELSE ExtractConnection(Head(conns), names)
         IN  ExtractLoopAll(Tail(conns), names, processedNets,
                            [nets |-> acc.nets \o r.nets, pins |-> acc.pins \o r.pins],
                            client)

\* for (const conn of connections): processedNets skips an id seen before
RECURSIVE ExtractLoop(_, _, _, _, _)
ExtractLoop(conns, names, processedNets, acc, client) ==
    IF conns = <<>> THEN acc
    ELSE IF Head(conns).id \in processedNets
    THEN ExtractLoop(Tail(conns), names, processedNets, acc, client)
    ELSE LET r == IF client THEN ExtractConnectionClient(Head(conns), names)
                  ELSE ExtractConnection(Head(conns), names)
         IN  ExtractLoop(Tail(conns), names, processedNets \cup {Head(conns).id},
                         [nets |-> acc.nets \o r.nets, pins |-> acc.pins \o r.pins],
                         client)

SelectedComponents(comps, ids) == SelectSeq(comps, LAMBDA c : c.id \in ids)
SelectedComponentNames(comps, ids) ==
    {c.name : c \in Range(SelectedComponents(comps, ids))}

\* extractPatchFromSchematic(schematicState, selectedIds, patchName) of
\* patchExtractor.ts, at time t; threw when nothing is selected
extractPatchFromSchematic(comps, conns, ids, patchName, t) ==
    LET selected == SelectedComponents(comps, ids)
        r == ExtractLoop(conns, SelectedComponentNames(comps, ids), {},
                         [nets |-> <<>>, pins |-> <<>>], FALSE)
    IN  IF Len(selected) = 0 THEN [threw |-> TRUE]
        ELSE [threw |-> FALSE,
              id |-> ReplaceWs(ToLowerCase(patchName), <<"-">>),
              name |-> patchName,
              components |->
                  [i \in DOMAIN selected |->
                      [id |-> selected[i].id, type |-> selected[i].type,
                       name |-> selected[i].name,
                       x |-> selected[i].x, y |-> selected[i].y,
                       rotation |-> 0, properties |-> <<>>]],
              nets |-> r.nets,
              interfacePins |-> r.pins,
              metadata |-> [version |-> <<"1", ".", "0">>,
                            createdAt |-> t, updatedAt |-> t]]

\* extractPatchFromSchematic of patch-api-client.ts
extractPatchFromSchematicClient(comps, conns, ids, patchName, t) ==
    LET selected == SelectedComponents(comps, ids)
        r == ExtractLoop(conns, SelectedComponentNames(comps, ids), {},
                         [nets |-> <<>>, pins |-> <<>>], TRUE)
    IN  IF Len(selected) = 0 THEN [threw |-> TRUE]
        ELSE [threw |-> FALSE,
              id |-> ReplaceWs(ToLowerCase(patchName), <<"-">>),
              metadata |-> [name |-> patchName, version |-> <<"1", ".", "0">>,
                            createdAt |-> t, modifiedAt |-> t],
              components |->
                  [i \in DOMAIN selected |->
                      [id |-> selected[i].id, type |-> selected[i].type,
                       name |-> selected[i].name,
                       position |-> [x |-> selected[i].x, y |-> selected[i].y],
                       properties |-> <<>>]],
              nets |-> r.nets,
              interfacePins |-> r.pins]

\* the checks of validateExtractedPatch on one list of endpoint strings
DanglingOwners(endpoints, componentNames) ==
    SelectSeq([i \in DOMAIN endpoints |-> CompNameOf(endpoints[i])],
              LAMBDA compName : compName \notin componentNames)

\* validateExtractedPatch with the component ids as the set of known owners
validateExtractedPatchById(patch) ==
    LET componentNames == {c.id : c \in Range(patch.components)}
        errors ==
            (IF patch.id = <<>> \/ patch.name = <<>> THEN <<"no id or name">> ELSE <<>>)
            \o (IF Len(patch.components) = 0 THEN <<"no component">> ELSE <<>>)
            \o Flatten([k \in DOMAIN patch.nets |->
                    DanglingOwners(patch.nets[k].connections, componentNames)])
            \o DanglingOwners([k \in DOMAIN patch.interfacePins |->
                                  patch.interfacePins[k].name], componentNames)
    IN  [valid |-> Len(errors) = 0, errors |-> errors,
         warnings |-> IF Len(patch.components) = 1
                      THEN <<"one component">> ELSE <<>>]

\* validateExtractedPatch(patch) of patchExtractor.ts: an error for a patch
\* without id or name, for a patch without components, and for every
\* endpoint of a net and every interface pin whose owner is no component
\* name of the patch (the error is kept as that owner, or as the check that
\* failed)
validateExtractedPatch(patch) ==
    LET componentNames == {c.name : c \in Range(patch.components)}
        errors ==
            (IF patch.id = <<>> \/ patch.name = <<>> THEN <<"no id or name">> ELSE <<>>)
            \o (IF Len(patch.components) = 0 THEN <<"no component">> ELSE <<>>)
            \o Flatten([k \in DOMAIN patch.nets |->
                    DanglingOwners(patch.nets[k].connections, componentNames)])
            \o DanglingOwners([k \in DOMAIN patch.interfacePins |->
                                  patch.interfacePins[k].name], componentNames)
    IN  [valid |-> Len(errors) = 0, errors |-> errors,
         warnings |-> IF Len(patch.components) = 1
                      THEN <<"one component">> ELSE <<>>]

(***************************************************************************)
(* Insertion (insertPatch of the schematic canvas, and onInsertPatch of    *)
(* patch-api-client.ts).                                                   *)
(***************************************************************************)
Offset == 80

\* `${id}-${now}`
FreshId(id, t) == id \o <<"-">> \o NumStr(t)

\* comp.position?.x || 0
PositionX(comp) == IF "position" \in DOMAIN comp THEN comp.position.x ELSE 0
PositionY(comp) == IF "position" \in DOMAIN comp THEN comp.position.y ELSE 0

\* { ...comp, id: newId, x: ..., y: ... }
NewComponent(comp, t) ==
    [id |-> FreshId(comp.id, t),
     x |-> PositionX(comp) + Offset,
     y |-> PositionY(comp) + Offset]
    @@ comp

NewComponents(patch, t) ==
    [i \in DOMAIN patch.components |-> NewComponent(patch.components[i], t)]

\* idMap.get(name) after idMap.set(comp.name, newId) for every component in
\* turn: the last component of that name decides
IdMapGet(patch, t, name) ==
    LET hits == {i \in DOMAIN patch.components : patch.components[i].name = name}
    IN  IF hits = {} THEN Undefined
        ELSE FreshId(patch.components[CHOOSE i \in hits : \A j \in hits : j <= i].id, t)

\* newComponents.find(c => c.name === name)?.id: the first of that name
FindNewId(patch, t, name) ==
    LET hits == {i \in DOMAIN patch.components : patch.components[i].name = name}
    IN  IF hits = {} THEN Undefined
        ELSE FreshId(patch.components[CHOOSE i \in hits : \A j \in hits : i <= j].id, t)

\* `${newComponentId || conn.componentId}.${conn.pinName}`
NewEndpoint(newId, conn) ==
    (IF newId = Undefined THEN conn.componentId ELSE newId)
        \o <<".">> \o conn.pinName

NewConnections(patch, t, client) ==
    [k \in DOMAIN patch.nets |->
        [id |-> FreshId(patch.nets[k].id, t),
         net |-> patch.nets[k].name,
         connections |->
            [j \in DOMAIN patch.nets[k].connections |->
                LET conn == patch.nets[k].connections[j]
                IN  NewEndpoint(IF client
                                THEN FindNewId(patch, t, conn.componentId)
                                ELSE IdMapGet(patch, t, conn.componentId),
                                conn)]]]

\* net.connections.map(...) throws on a net that has no connections array
MapThrows(patch) ==
    \E k \in DOMAIN patch.nets : "connections" \notin DOMAIN patch.nets[k]

\* insertPatch that updates the components before it maps the nets
insertPatchEager(comps, conns, patch, t, client) ==
    IF MapThrows(patch)
    THEN [threw |-> TRUE, components |-> comps \o NewComponents(patch, t),
          connections |-> conns]
    ELSE [threw |-> FALSE,
          components |-> comps \o NewComponents(patch, t),
          connections |-> conns \o NewConnections(patch, t, client)]

\* insertPatch(patch) / onInsertPatch(patch) at time t: both collections are
\* computed, then both are set
insertPatch(comps, conns, patch, t, client) ==
    IF MapThrows(patch)
    THEN [threw |-> TRUE, components |-> comps, connections |-> conns]
    ELSE [threw |-> FALSE,
          components |-> comps \o NewComponents(patch, t),
          connections |-> conns \o NewConnections(patch, t, client)]

(***************************************************************************)
(* The editing session: a schematic, patches inserted into it and patches  *)
(* extracted from it.                                                      *)
(***************************************************************************)
MaxEdits == 2
MaxSelection == 2

Endpoint(name, pin) == name \o <<".">> \o pin

SchematicComponent(id, name, x, y) ==
    [id |-> id, type |-> <<"r">>, name |-> name, x |-> x, y |-> y]
SchematicConnection(id, net, endpoints) ==
    [id |-> id, net |-> net, connections |-> endpoints]

\* components A, B, C with connections A.1-B.1 and B.2-C.1
ComponentsABC ==
    <<SchematicComponent(<<"a">>, <<"A">>, 0, 0),
      SchematicComponent(<<"b">>, <<"B">>, 50, 0),
      SchematicComponent(<<"c">>, <<"C">>, 100, 0)>>
ConnectionsABC ==
    <<SchematicConnection(<<"k", "1">>, <<"N", "1">>,
                          <<Endpoint(<<"A">>, <<"1">>), Endpoint(<<"B">>, <<"1">>)>>),
      SchematicConnection(<<"k", "2">>, <<"N", "2">>,
                          <<Endpoint(<<"B">>, <<"2">>), Endpoint(<<"C">>, <<"1">>)>>)>>
\* a further record under an identifier already in use
ConnectionsRepeated ==
    Append(ConnectionsABC,
           SchematicConnection(<<"k", "1">>, <<"N", "3">>,
                               <<Endpoint(<<"A">>, <<"2">>), Endpoint(<<"B">>, <<"3">>)>>))

\* one connection with three endpoints on A and B and one on C
ConnectionsFanOut ==
    <<SchematicConnection(<<"k", "1">>, <<"N", "1">>,
                          <<Endpoint(<<"A">>, <<"1">>), Endpoint(<<"C">>, <<"2">>),
                            Endpoint(<<"A">>, <<"2">>), Endpoint(<<"B">>, <<"1">>)>>)>>

InitialSchematics ==
    {[components |-> <<>>, connections |-> <<>>],
     [components |-> ComponentsABC, connections |-> ConnectionsABC],
     [components |-> ComponentsABC, connections |-> ConnectionsRepeated],
     [components |-> ComponentsABC, connections |-> ConnectionsFanOut]}

\* a patch as the tests build it: nets name components by id
PatchById ==
    WithParts(createEmptyPatch(<<"p">>, 0),
              <<[Comp(<<"v">>, <<"V">>, <<>>) EXCEPT !.position = [x |-> 0, y |-> 0]],
                [Comp(<<"r">>, <<"R">>, <<>>) EXCEPT !.position = [x |-> 50, y |-> 0]]>>,
              <<Net(<<"n">>, <<"N">>,
                    <<Conn(<<"v">>, <<"1">>), Conn(<<"r">>, <<"1">>)>>)>>)
\* a patch as the extractor of patch-api-client.ts builds it: nets name
\* components by name
PatchByName ==
    WithParts(createEmptyPatch(<<"q">>, 0),
              <<Comp(<<"d">>, <<"D">>, <<>>)>>,
              <<Net(<<"m">>, <<"M">>,
                    <<Conn(<<"D">>, <<"1">>), Conn(<<"D">>, <<"2">>)>>)>>)
\* a patch file with a net that has no connections array
PatchNoConnections ==
    WithParts(createEmptyPatch(<<"w">>, 0),
              <<Comp(<<"d">>, <<"D">>, <<>>)>>,
              <<[id |-> <<"m">>, name |-> <<"M">>]>>)

InsertablePatches == {PatchById, PatchByName, PatchNoConnections}

PatchNames == {<<"P", " ", "x">>}

Selections ==
    {ids \in SUBSET {c.id : c \in Range(components)} :
        Cardinality(ids) <= MaxSelection}

CommitEdit(op, args, t, threw, value) ==
    /\ nCalls < MaxEdits
    /\ now' = t
    /\ nCalls' = nCalls + 1
    /\ call' = [op |-> op, args |-> args]
    /\ ret' = [threw |-> threw, value |-> value, failed |-> "none"]
    /\ UNCHANGED storeVars
    /\ UNCHANGED projectVars

Insert(op, client) ==
    \E patch \in InsertablePatches, t \in Ticks :
        LET r == insertPatch(components, connections, patch, t, client)
        IN  /\ CommitEdit(op, <<patch>>, t, r.threw, Undefined)
            /\ components' = r.components
            /\ connections' = r.connections
            /\ UNCHANGED <<selectedIds, extracted, pending, editedPatch>>

InsertPatch == Insert("insertPatch", FALSE)
OnInsertPatch == Insert("onInsertPatch", TRUE)

\* handleInsertPatch(patchId) up to its await: the handler holds the
\* insertPatch of the current render, whose components and connections are
\* those of that render
HandleInsertPatch ==
    /\ nCalls < MaxEdits
    /\ pending = <<>>
    /\ pending' = <<[components |-> components, connections |-> connections]>>
    /\ call' = [op |-> "handleInsertPatch", args |-> <<>>]
    /\ ret' = NoRet
    /\ UNCHANGED <<now, nCalls, components, connections, selectedIds, extracted, editedPatch>>
    /\ UNCHANGED storeVars
    /\ UNCHANGED projectVars

\* getPatch resolves and the handler calls the insertPatch it holds
ResolveInsertPatch ==
    /\ pending # <<>>
    /\ \E patch \in InsertablePatches, t \in Ticks :
        LET r == insertPatch(pending[1].components, pending[1].connections,
                             patch, t, FALSE)
        IN  /\ CommitEdit("insertPatch", <<patch>>, t, r.threw, Undefined)
            /\ IF r.threw
               THEN UNCHANGED <<components, connections>>
               ELSE /\ components' = r.components
                    /\ connections' = r.connections
            /\ pending' = <<>>
            /\ UNCHANGED <<selectedIds, extracted, editedPatch>>

Extract ==
    \E ids \in Selections, patchName \in PatchNames, t \in Ticks :
        LET r == extractPatchFromSchematic(components, connections, ids,
                                           patchName, t)
        IN  /\ CommitEdit("extract", <<ids, patchName>>, t, r.threw, Undefined)
            /\ selectedIds' = ids
            /\ extracted' = r
            /\ UNCHANGED <<components, connections, pending, editedPatch>>

ExtractClient ==
    \E ids \in Selections, patchName \in PatchNames, t \in Ticks :
        LET r == extractPatchFromSchematicClient(components, connections, ids,
                                                 patchName, t)
        IN  /\ CommitEdit("extractClient", <<ids, patchName>>, t, r.threw, Undefined)
            /\ selectedIds' = ids
            /\ extracted' = r
            /\ UNCHANGED <<components, connections, pending, editedPatch>>

\* validateExtractedPatch is called with the patch patchExtractor.ts has
\* just returned
ValidateExtractedPatch ==
    /\ call.op = "extract"
    /\ ~ret.threw
    /\ call' = [op |-> "validateExtractedPatch", args |-> <<extracted>>]
    /\ ret' = [threw |-> FALSE, value |-> validateExtractedPatch(extracted),
               failed |-> "none"]
    /\ UNCHANGED <<now, nCalls>>
    /\ UNCHANGED diagramVars
    /\ UNCHANGED storeVars
    /\ UNCHANGED projectVars

InitSchematic ==
    /\ \E d \in InitialSchematics :
         /\ components = d.components
         /\ connections = d.connections
    /\ selectedIds = {}
    /\ extracted = [threw |-> TRUE]
    /\ pending = <<>>
    /\ editedPatch = createEmptyPatch(<<"p">>, 0)

InitNoStore ==
    /\ files = <<>>
    /\ backups = <<>>
    /\ libraryIndex = <<>>
    /\ globalIndex = <<>>
    /\ indexFile = NoFile
    /\ overwritten = {}

InitEditor == InitCalls /\ InitNoStore /\ InitSchematic /\ InitNoProject
NextEditor ==
    \/ InsertPatch
    \/ OnInsertPatch
    \/ HandleInsertPatch
    \/ ResolveInsertPatch
    \/ Extract
    \/ ExtractClient
    \/ ValidateExtractedPatch
SpecEditor == InitEditor /\ [][NextEditor]_vars

(***************************************************************************)
(* The wire form of a patch (patch.ts).                                    *)
(***************************************************************************)
KeyId == <<"i", "d">>
KeyName == <<"n", "a", "m", "e">>
KeyType == <<"t", "y", "p", "e">>
KeyProperties == <<"p", "r", "o", "p", "e", "r", "t", "i", "e", "s">>
KeyPosition == <<"p", "o", "s", "i", "t", "i", "o", "n">>

\* an object literal { k1: v1, k2: v2, ... }: of two entries with the same
\* key the later one stays
ObjectOf(entries) ==
    [k \in {entries[i].key : i \in DOMAIN entries} |->
        entries[CHOOSE i \in DOMAIN entries :
                    /\ entries[i].key = k
                    /\ \A j \in DOMAIN entries : entries[j].key = k => j <= i].value]

\* obj[key]
Get(obj, key) == IF key \in DOMAIN obj THEN obj[key] ELSE Undefined

\* { name: comp.name, type: comp.type, ...comp.properties }
WireComponent(comp) ==
    ObjectOf(<<[key |-> KeyName, value |-> comp.name],
               [key |-> KeyType, value |-> comp.type]>> \o comp.properties)

\* { name: net.name, connections: net.connections }
WireNet(net) == [name |-> net.name, connections |-> net.connections]

\* patchToCircuitJson(patch)
patchToCircuitJson(p) ==
    [schemaVersion |-> <<"1", ".", "0">>,
     metadata |-> p.metadata,
     components |-> [i \in DOMAIN p.components |-> WireComponent(p.components[i])],
     nets |-> [k \in DOMAIN p.nets |-> WireNet(p.nets[k])],
     interfacePins |-> p.interfacePins]

(***************************************************************************)
(* The connectivity engine (elk-service.ts).                               *)
(***************************************************************************)
\* `${componentId}_${pinName}`
NodeId(componentId, pinName) == componentId \o <<"_">> \o pinName

PinKeys(component) ==
    SelectSeq([k \in DOMAIN component.properties |-> component.properties[k].key],
              LAMBDA key : StartsWith(key, PinPrefix))

\* buildGraph: a node per pin slot, an edge per adjacent pair of endpoints
GraphNodes(p) ==
    Flatten([c \in DOMAIN p.components |->
                [k \in DOMAIN PinKeys(p.components[c]) |->
                    NodeId(p.components[c].id, PinKeys(p.components[c])[k])]])

GraphEdges(p) ==
    Flatten([n \in DOMAIN p.nets |->
                [i \in 1..(Len(p.nets[n].connections) - 1) |->
                    [source |-> NodeId(p.nets[n].connections[i].componentId,
                                       p.nets[n].connections[i].pinName),
                     target |-> NodeId(p.nets[n].connections[i + 1].componentId,
                                       p.nets[n].connections[i + 1].pinName),
                     netId |-> p.nets[n].id]]])

\* neighbours when every endpoint has an adjacency list, a pin slot or not
NeighborsOfAny(p, nodeId) ==
    {e.target : e \in {d \in Range(GraphEdges(p)) : d.source = nodeId}}
    \cup {e.source : e \in {d \in Range(GraphEdges(p)) : d.target = nodeId}}

\* adjacencyList.get(nodeId) || []: only a node has a list
Neighbors(p, nodeId) ==
    IF nodeId \notin Range(GraphNodes(p)) THEN {}
    ELSE {e.target : e \in {d \in Range(GraphEdges(p)) : d.source = nodeId}}
         \cup {e.source : e \in {d \in Range(GraphEdges(p)) : d.target = nodeId}}

buildGraph(p) == [nodes |-> GraphNodes(p), edges |-> GraphEdges(p)]

\* dfs: the nodes visited once the nodes in todo are visited
RECURSIVE Dfs(_, _, _)
Dfs(p, todo, visited) ==
    IF todo = {} THEN visited
    ELSE LET n == CHOOSE n \in todo : TRUE
         IN  Dfs(p, (todo \cup Neighbors(p, n)) \ (visited \cup {n}),
                 visited \cup {n})

RECURSIVE CountFrom(_, _, _, _)
CountFrom(p, nodes, visited, count) ==
    IF nodes = <<>> THEN count
    ELSE IF Head(nodes) \in visited
    THEN CountFrom(p, Tail(nodes), visited, count)
    ELSE CountFrom(p, Tail(nodes), Dfs(p, {Head(nodes)}, visited), count + 1)

countConnectedSubgraphs(p) == CountFrom(p, GraphNodes(p), {}, 0)

Unspecified == <<"u", "n", "s", "p", "e", "c", "i", "f", "i", "e", "d">>

\* net.connections.some(conn => conn.componentId === component.id)
NetReferences(net, component) ==
    \E j \in DOMAIN net.connections : net.connections[j].componentId = component.id

\* findUnconnectedPins at the granularity of pin slots: one entry for every
\* pin slot that is an endpoint of no net
findUnconnectedPinsPerSlot(p) ==
    Flatten([c \in DOMAIN p.components |->
        LET open == SelectSeq(PinKeys(p.components[c]),
                              LAMBDA key : ~IsConnected(p, p.components[c], key))
        IN  [k \in DOMAIN open |->
                [componentId |-> p.components[c].id,
                 componentName |-> p.components[c].name,
                 pinName |-> open[k]]]])

\* findUnconnectedPins: for every component, for every net that does not
\* reference it, one entry
findUnconnectedPins(p) ==
    Flatten([c \in DOMAIN p.components |->
        LET missing == SelectSeq(p.nets,
                                 LAMBDA net : ~NetReferences(net, p.components[c]))
        IN  [n \in DOMAIN missing |->
                [componentId |-> p.components[c].id,
                 componentName |-> p.components[c].name,
                 pinName |-> Unspecified]]])

findFloatingNets(p) ==
    LET floating == SelectSeq(p.nets, LAMBDA net : Len(net.connections) < 2)
    IN  [k \in DOMAIN floating |->
            [netId |-> floating[k].id, netName |-> floating[k].name,
             connectionCount |-> Len(floating[k].connections)]]

analyzeConnectivity(p) ==
    [componentCount |-> Len(p.components),
     netCount |-> Len(p.nets),
     unconnectedPins |-> findUnconnectedPins(p),
     floatingNets |-> findFloatingNets(p),
     subgraphCount |-> countConnectedSubgraphs(p),
     isFullyConnected |-> findUnconnectedPins(p) = <<>> /\ findFloatingNets(p) = <<>>]

(***************************************************************************)
(* The patch under edit: components, nets and interface pins are pushed    *)
(* onto a patch made by createEmptyPatch, endpoints are taken off its      *)
(* nets, and the patch is validated, analysed and converted.               *)
(***************************************************************************)
MaxComponents == 3
MaxNets == 2

\* R and D have two pin slots, V has none (its property is no pin slot)
BenchComponents ==
    {Comp(<<"r">>, <<"R">>, <<Pin1, Pin2>>),
     Comp(<<"d">>, <<"D">>, <<Pin1, Pin2>>),
     Comp(<<"v">>, <<"V">>, <<<<"k">>>>)}

BenchNets ==
    {Net(<<"n", "1">>, <<"N", "1">>, <<Conn(<<"r">>, Pin1), Conn(<<"d">>, Pin1)>>),
     Net(<<"n", "2">>, <<"N", "2">>, <<Conn(<<"r">>, Pin2)>>),
     Net(<<"n", "3">>, <<"N", "3">>,
         <<Conn(<<"r">>, Pin2), Conn(<<"v">>, <<"k">>), Conn(<<"d">>, Pin1)>>),
     Net(<<"n", "4">>, <<"N", "4">>, <<Conn(<<"r">>, Pin1), Conn(<<"r">>, Pin2)>>)}

BenchInterfacePins ==
    {[id |-> <<"i">>, name |-> <<"I">>, position |-> "top",
      internalNetName |-> <<"N", "1">>, type |-> "power"]}

\* seq without its j-th element
RemoveAt(seq, j) == SubSeq(seq, 1, j - 1) \o SubSeq(seq, j + 1, Len(seq))

EditPatch(p) ==
    /\ editedPatch' = p
    /\ call' = [op |-> "edit", args |-> <<>>]
    /\ ret' = NoRet
    /\ UNCHANGED <<now, nCalls, components, connections, selectedIds,
                   extracted, pending>>
    /\ UNCHANGED storeVars
    /\ UNCHANGED projectVars

\* patch.components.push(component)
PushComponent ==
    /\ Len(editedPatch.components) < MaxComponents
    /\ \E c \in BenchComponents :
         /\ \A i \in DOMAIN editedPatch.components :
                editedPatch.components[i].id # c.id
         /\ EditPatch([editedPatch EXCEPT !.components = Append(@, c)])

\* patch.nets.push(net)
PushNet ==
    /\ Len(editedPatch.nets) < MaxNets
    /\ \E net \in BenchNets :
         /\ \A k \in DOMAIN editedPatch.nets : editedPatch.nets[k].id # net.id
         /\ EditPatch([editedPatch EXCEPT !.nets = Append(@, net)])

\* patch.interfacePins.push(pin)
PushInterfacePin ==
    /\ editedPatch.interfacePins = <<>>
    /\ \E pin \in BenchInterfacePins :
         EditPatch([editedPatch EXCEPT !.interfacePins = Append(@, pin)])

\* an endpoint is taken off a net
RemoveEndpoint ==
    \E k \in DOMAIN editedPatch.nets :
        \E j \in DOMAIN editedPatch.nets[k].connections :
            EditPatch([editedPatch EXCEPT
                          !.nets[k].connections = RemoveAt(@, j)])

\* a function of the patch is called and returns value
Apply(op, args, value) ==
    /\ call' = [op |-> op, args |-> args]
    /\ ret' = [threw |-> FALSE, value |-> value, failed |-> "none"]
    /\ UNCHANGED <<now, nCalls>>
    /\ UNCHANGED diagramVars
    /\ UNCHANGED storeVars
    /\ UNCHANGED projectVars

ValidatePatch ==
    Apply("validatePatch", <<editedPatch>>, validatePatch(editedPatch))

AnalyzeConnectivity ==
    Apply("analyzeConnectivity", <<editedPatch>>, analyzeConnectivity(editedPatch))

PatchToCircuitJson ==
    Apply("patchToCircuitJson", <<editedPatch>>, patchToCircuitJson(editedPatch))

\* the wire form just produced is converted back
CircuitJsonToPatch ==
    /\ call.op = "patchToCircuitJson"
    /\ Apply("circuitJsonToPatch", <<ret.value>>, circuitJsonToPatch(ret.value, now))

InitBench == InitCalls /\ InitNoStore /\ InitNoDiagram /\ InitNoProject
NextBench ==
    \/ PushComponent
    \/ PushNet
    \/ PushInterfacePin
    \/ RemoveEndpoint
    \/ ValidatePatch
    \/ AnalyzeConnectivity
    \/ PatchToCircuitJson
    \/ CircuitJsonToPatch
SpecBench == InitBench /\ [][NextBench]_vars

(***************************************************************************)
(* ProjectManager (project-manager.ts): the manifest's list of patch       *)
(* paths and the file index, which is keyed by patch name.                 *)
(***************************************************************************)
MaxProjectCalls == 4

ProjectPaths == {<<"p", "1">>, <<"p", "2">>, <<"p", "3">>}
ProjectPatchNames == {<<"x">>, <<"y">>}

\* fileIndex.has / get / set / delete; a value is kept with the key it is
\* set under
FileIndexHas(m, key) == \E i \in DOMAIN m : m[i].key = key
FileIndexGet(m, key) == m[CHOOSE i \in DOMAIN m : m[i].key = key]
FileIndexSet(m, key, file) ==
    IF FileIndexHas(m, key)
    THEN [i \in DOMAIN m |-> IF m[i].key = key THEN file ELSE m[i]]
    ELSE Append(m, file)
FileIndexDelete(m, key) == SelectSeq(m, LAMBDA f : f.key # key)

\* a method of the ProjectManager is called at time t and returns value
CommitProject(op, args, t, value) ==
    /\ nCalls < MaxProjectCalls
    /\ now' = t
    /\ nCalls' = nCalls + 1
    /\ call' = [op |-> op, args |-> args]
    /\ ret' = [threw |-> FALSE, value |-> value, failed |-> "none"]
    /\ UNCHANGED storeVars
    /\ UNCHANGED diagramVars

\* createProject(name, mainFileName), called once in a session
CreateProject ==
    /\ manifest = <<>>
    /\ \E t \in Ticks :
         LET m == [name |-> <<"T">>, mainFile |-> <<"m">>, patches |-> <<>>,
                   metadata |-> [version |-> <<"1", ".", "0", ".", "0">>,
                                 createdAt |-> t, modifiedAt |-> t]]
         IN  /\ CommitProject("createProject", <<>>, t, m)
             /\ manifest' = <<m>>
             /\ UNCHANGED fileIndex

\* addPatchFile(patchPath, patchName): nothing without a manifest or for a
\* path the manifest lists; else the path is pushed, the entry is set under
\* the patch name and saveProjectManifest refreshes modifiedAt
AddPatchFile ==
    \E patchPath \in ProjectPaths, patchName \in ProjectPatchNames, t \in Ticks :
        /\ CommitProject("addPatchFile", <<patchPath, patchName>>, t, Undefined)
        /\ IF manifest = <<>> \/ patchPath \in Range(manifest[1].patches)
           THEN UNCHANGED projectVars
           ELSE /\ manifest' =
                      <<[manifest[1] EXCEPT !.patches = Append(@, patchPath),
                                            !.metadata.modifiedAt = t]>>
                /\ fileIndex' =
                      FileIndexSet(fileIndex, patchName,
                             [key |-> patchName, id |-> TimeId(t),
                              name |-> patchName, path |-> patchPath,
                              type |-> "patch", modifiedAt |-> t,
                              sizeBytes |-> 0])

\* removePatchFile(patchName): false without a manifest, without an entry
\* under the name, or when the manifest does not list the entry's path;
\* else the path is spliced out and the entry deleted
RemovePatchFile ==
    \E patchName \in ProjectPatchNames, t \in Ticks :
        LET found == manifest # <<>> /\ FileIndexHas(fileIndex, patchName)
            path == FileIndexGet(fileIndex, patchName).path
            index == IndexOf(manifest[1].patches, path, 1)
        IN  IF found /\ index > 0
            THEN /\ CommitProject("removePatchFile", <<patchName>>, t, TRUE)
                 /\ manifest' =
                       <<[manifest[1] EXCEPT
                            !.patches = RemoveAt(@, index),
                            !.metadata.modifiedAt = t]>>
                 /\ fileIndex' = FileIndexDelete(fileIndex, patchName)
            ELSE /\ CommitProject("removePatchFile", <<patchName>>, t, FALSE)
                 /\ UNCHANGED projectVars

\* getProjectStructure(): the entries of the file index of type patch
GetProjectStructure ==
    /\ call' = [op |-> "getProjectStructure", args |-> <<>>]
    /\ ret' = [threw |-> FALSE, failed |-> "none",
               value |-> [patches |-> SelectSeq(fileIndex,
                                                LAMBDA f : f.type = "patch")]]
    /\ UNCHANGED <<now, nCalls>>
    /\ UNCHANGED projectVars
    /\ UNCHANGED storeVars
    /\ UNCHANGED diagramVars

InitProject == InitCalls /\ InitNoStore /\ InitNoDiagram /\ InitNoProject
NextProject ==
    \/ CreateProject
    \/ AddPatchFile
    \/ RemovePatchFile
    \/ GetProjectStructure
SpecProject == InitProject /\ [][NextProject]_vars

(***************************************************************************)
(* Properties of the library store.                                        *)
(***************************************************************************)
ErrorResults(patch) ==
    {i \in DOMAIN validatePatch(patch) : validatePatch(patch)[i].severity = "error"}

\* C1: a save of a patch for which validatePatch reports an error-severity
\* result throws, and writes no patch file, creates no backup and leaves the
\* in-memory index and the index file as they were.
C1_SaveRejectsErrors ==
    [][(call'.op = "savePatch" /\ ErrorResults(call'.args[1]) # {})
        => /\ ret'.threw
           /\ UNCHANGED <<files, backups, libraryIndex, indexFile>>]_vars

\* a save was rejected for an error-severity result, on a store that
\* already holds a patch file and an index entry
C1_Witness ==
    /\ call.op = "savePatch"
    /\ ErrorResults(call.args[1]) # {}
    /\ ret.threw
    /\ libraryIndex # <<>>

\* C2: every content a save overwrote is still held by a backup.
C2_OverwrittenContentIsBackedUp ==
    \A pair \in overwritten :
        \E b \in DOMAIN backups :
            /\ StartsWith(b, pair[1].name)
            /\ backups[b] = pair[2]

Completed ==
    \/ call.op \in {"savePatch", "importPatch"} /\ ~ret.threw
    \/ call.op = "deletePatch" /\ ret.value

\* C3: after a completed save, delete or import the index file holds exactly
\* the entries of the in-memory index, and after a completed save of p the
\* entry under the id derived from p's name points at the returned location.
C3_IndexMirrored ==
    /\ Completed =>
         /\ indexFile.kind = "json"
         /\ Range(indexFile.value) = Range(libraryIndex)
    /\ (call.op = "savePatch" /\ ~ret.threw) =>
         LET id == PatchIdPrefix \o ReplaceWs(call.args[1].metadata.name, <<"_">>)
         IN  /\ MapHas(libraryIndex, id)
             /\ MapGet(libraryIndex, id).filePath = ret.value

\* a save completed on a store that then holds two entries
C3_Witness ==
    /\ call.op = "savePatch"
    /\ ~ret.threw
    /\ Len(libraryIndex) = 2

C5_DeleteUnknownIsNoop ==
    [][/\ (call'.op = "deletePatch" /\ ~MapHas(libraryIndex, call'.args[1]))
          => /\ ~ret'.threw
             /\ ret'.value = FALSE
             /\ UNCHANGED <<files, backups, libraryIndex, indexFile>>
       /\ (call.op = "deletePatch" /\ ret.value
           /\ call'.op = "deletePatch" /\ call'.args = call.args)
          => /\ ret'.value = FALSE
             /\ UNCHANGED <<files, backups, libraryIndex, indexFile>>]_vars

\* an id was deleted, and then deleted again
C5_Witness ==
    /\ call.op = "deletePatch"
    /\ ret.failed = "unknown"
    /\ call.args[1] = NameId(NameA)
    /\ \E t \in 0..MaxTime :
         DeletedPrefix \o NumStr(t) \o <<"_">> \o NameA \o ExtTscircuit
            \in DOMAIN backups

\* C6: a call in which the write of the index file fails leaves the index
\* file as it was before the call, and never half-written.
C6_FailedIndexWriteLeavesIndexFile ==
    [][ret'.failed \in {"index", "index2"}
        => /\ indexFile' = indexFile
           /\ indexFile'.kind # "torn"]_vars


(***************************************************************************)
(* Properties of extraction and insertion.                                 *)
(***************************************************************************)
Extracted == call.op \in {"extract", "extractClient"} /\ ~ret.threw

SelectedNames == {c.name : c \in {d \in Range(components) : d.id \in selectedIds}}
OwnedEndpoints(i) ==
    {e \in Range(connections[i].connections) : CompNameOf(e) \in SelectedNames}

\* the records that are the first of their identifier in the connection list
FirstRecords ==
    {i \in DOMAIN connections :
        \A j \in DOMAIN connections : j < i => connections[j].id # connections[i].id}

NetEndpoints(net) ==
    IF call.op = "extract" THEN Range(net.connections)
    ELSE {Endpoint(c.componentId, c.pinName) : c \in Range(net.connections)}
PinNet(pin) == IF call.op = "extract" THEN pin.net ELSE pin.internalNetName

IsInternal(i) ==
    \E n \in Range(extracted.nets) :
        /\ n.id = connections[i].id
        /\ n.name = connections[i].net
        /\ NetEndpoints(n) = Range(connections[i].connections)
IsInterface(i) ==
    \E q \in Range(extracted.interfacePins) :
        PinNet(q) = connections[i].net /\ q.name \in OwnedEndpoints(i)

ProducedEndpoints ==
    UNION {NetEndpoints(n) : n \in Range(extracted.nets)}
        \cup {q.name : q \in Range(extracted.interfacePins)}

BoundaryLaw(records) ==
    /\ \A i \in records :
         /\ IsInternal(i) <=>
                (OwnedEndpoints(i) # {}
                    /\ OwnedEndpoints(i) = Range(connections[i].connections))
         /\ IsInterface(i) <=>
                (OwnedEndpoints(i) # {}
                    /\ OwnedEndpoints(i) # Range(connections[i].connections))
    /\ ProducedEndpoints = UNION {OwnedEndpoints(i) : i \in records}

\* C7, as stated: after an extraction, every connection of the diagram is
\* internal exactly when all its endpoints belong to selected components,
\* interface exactly when some but not all do, and ignored otherwise; and the
\* endpoints of the internal nets and interface pins together are exactly the
\* endpoints, over all connections, owned by a selected component.
C7_BoundaryLawAllRecords == Extracted => BoundaryLaw(DOMAIN connections)

\* C7: the law holds of the connection records that are the first of their
\* identifier; a later record under the same identifier is skipped.
C7_BoundaryLaw == Extracted => BoundaryLaw(FirstRecords)

C7_Witness ==
    /\ Extracted
    /\ FirstRecords # DOMAIN connections
    /\ \E i \in FirstRecords : IsInternal(i)
    /\ \E i \in FirstRecords : IsInterface(i)

Inserted == call.op \in {"insertPatch", "onInsertPatch"} /\ ~ret.threw

UniqueIds(seq) ==
    \A i, j \in DOMAIN seq : i # j => seq[i].id # seq[j].id

\* C8: when a patch is inserted and the same patch is inserted again into
\* the resulting diagram, whose identifiers are all distinct, the identifiers
\* of the components, and of the connections, are still all distinct.
C8_SecondInsertionKeepsIdsUnique ==
    [][(/\ Inserted
        /\ Inserted'
        /\ call'.args = call.args
        /\ UniqueIds(components)
        /\ UniqueIds(connections))
       => (UniqueIds(components') /\ UniqueIds(connections'))]_vars

\* the components and connections the last insertion added
AddedComponents ==
    LET n == Len(call.args[1].components)
    IN  {components[i] : i \in (Len(components) - n + 1)..Len(components)}
AddedConnections ==
    LET n == Len(call.args[1].nets)
    IN  {connections[i] : i \in (Len(connections) - n + 1)..Len(connections)}

\* every endpoint of every net names a component of the patch
NetInvariant(patch) ==
    \A k \in DOMAIN patch.nets : \A c \in Range(patch.nets[k].connections) :
        \E d \in Range(patch.components) : d.id = c.componentId

\* C9: after a patch whose nets name only components of the patch is
\* inserted, every endpoint of every added connection is owned by one of the
\* added components.
C9_AddedEndpointsReferToAddedComponents ==
    (Inserted /\ NetInvariant(call.args[1]))
        => \A k \in AddedConnections : \A e \in Range(k.connections) :
              \E d \in AddedComponents : CompNameOf(e) \in {d.id, d.name}

\* the last n elements of seq
Last(seq, n) == SubSeq(seq, Len(seq) - n + 1, Len(seq))

\* C10: an insertion that fails leaves the diagram as it was; one that
\* succeeds leaves the diagram ending with a new component for every
\* component of the patch and a new connection for every net of the patch.
C10_InsertionIsAtomic ==
    [][call'.op \in {"insertPatch", "onInsertPatch"}
       => \/ /\ ret'.threw
             /\ UNCHANGED <<components, connections>>
          \/ /\ ~ret'.threw
             /\ Len(components') >= Len(call'.args[1].components)
             /\ Len(connections') >= Len(call'.args[1].nets)
             /\ LET patch == call'.args[1]
                    added == Last(components', Len(patch.components))
                    wired == Last(connections', Len(patch.nets))
                IN  /\ \A i \in DOMAIN added :
                         added[i].id = FreshId(patch.components[i].id, now')
                    /\ \A k \in DOMAIN wired :
                         wired[k].id = FreshId(patch.nets[k].id, now')]_vars

C10_Witness ==
    /\ call.op \in {"insertPatch", "onInsertPatch"}
    /\ ret.threw
    /\ call.args[1] = PatchNoConnections
    /\ \E c \in Range(components) : c.id = FreshId(<<"v">>, 0)

\* seq is the beginning of longer
IsPrefix(seq, longer) ==
    /\ Len(seq) <= Len(longer)
    /\ SubSeq(longer, 1, Len(seq)) = seq

\* C11: an insertion keeps every component and every connection the diagram
\* held, unchanged and in place, and adds the new ones after them.
C11_InsertionOnlyAppends ==
    [][call'.op \in {"insertPatch", "onInsertPatch"}
       => /\ IsPrefix(components, components')
          /\ IsPrefix(connections, connections')]_vars

(***************************************************************************)
(* Properties of the patch model and the connectivity engine.              *)
(***************************************************************************)
\* obj.field of a net of the wire form
NetField(net, field) == IF field \in DOMAIN net THEN net[field] ELSE Undefined

\* C12: a patch converted to its wire form and back has the components of
\* the original (id, name, type, properties, position), its nets (id, name,
\* endpoints), its interface pins, and its metadata name and version.
C12_RoundTrip ==
    call.op = "circuitJsonToPatch"
    => /\ Len(ret.value.components) = Len(editedPatch.components)
       /\ \A i \in DOMAIN editedPatch.components :
            /\ Get(ret.value.components[i], KeyId) = editedPatch.components[i].id
            /\ Get(ret.value.components[i], KeyName) = editedPatch.components[i].name
            /\ Get(ret.value.components[i], KeyType) = editedPatch.components[i].type
            /\ Get(ret.value.components[i], KeyProperties)
                   = editedPatch.components[i].properties
            /\ Get(ret.value.components[i], KeyPosition)
                   = editedPatch.components[i].position
       /\ Len(ret.value.nets) = Len(editedPatch.nets)
       /\ \A k \in DOMAIN editedPatch.nets :
            /\ NetField(ret.value.nets[k], "id") = editedPatch.nets[k].id
            /\ NetField(ret.value.nets[k], "name") = editedPatch.nets[k].name
            /\ NetField(ret.value.nets[k], "connections")
                   = editedPatch.nets[k].connections
       /\ ret.value.interfacePins = editedPatch.interfacePins
       /\ ret.value.metadata.name = editedPatch.metadata.name
       /\ ret.value.metadata.version = editedPatch.metadata.version

\* the (component id, pin slot key) pairs that are an endpoint of no net
UnconnectedSlots(p) ==
    {slot \in UNION {{<<c.id, c.properties[k].key>> : k \in DOMAIN c.properties} :
                        c \in Range(p.components)} :
        /\ StartsWith(slot[2], PinPrefix)
        /\ \A net \in Range(p.nets) : \A e \in Range(net.connections) :
              ~(e.componentId = slot[1] /\ e.pinName = slot[2])}

\* the ids of the nets with fewer than two endpoints
FloatingIds(p) == {net.id : net \in {n \in Range(p.nets) : Len(n.connections) < 2}}

IsSlotError(result, slot) ==
    /\ result.type = "unconnected-pin"
    /\ result.severity = "error"
    /\ result.componentId = slot[1]
    /\ result.pinId = slot[2]

IsFloatingWarning(result, netId) ==
    /\ result.type = "floating-net"
    /\ result.severity = "warning"
    /\ result.netId = netId

\* C13: validatePatch returns one unconnected-pin error for each pin slot
\* that is an endpoint of no net, one floating-net warning for each net with
\* fewer than two endpoints, and no other result; the patch is as it was.
C13_ValidateExact ==
    call.op = "validatePatch"
    => /\ \A slot \in UnconnectedSlots(editedPatch) :
            Cardinality({i \in DOMAIN ret.value : IsSlotError(ret.value[i], slot)}) = 1
       /\ \A netId \in FloatingIds(editedPatch) :
            Cardinality({i \in DOMAIN ret.value :
                            IsFloatingWarning(ret.value[i], netId)}) = 1
       /\ \A i \in DOMAIN ret.value :
            \/ \E slot \in UnconnectedSlots(editedPatch) : IsSlotError(ret.value[i], slot)
            \/ \E netId \in FloatingIds(editedPatch) :
                  IsFloatingWarning(ret.value[i], netId)
       /\ call.args[1] = editedPatch

C13_Witness ==
    /\ call.op = "validatePatch"
    /\ \E i, j \in DOMAIN ret.value :
         ret.value[i].severity = "error" /\ ret.value[j].severity = "warning"
    /\ \E c \in Range(editedPatch.components) :
         /\ <<c.id, Pin1>> \notin UnconnectedSlots(editedPatch)
         /\ <<c.id, Pin2>> \in UnconnectedSlots(editedPatch)

WarningsOnly(p) ==
    /\ validatePatch(p) # <<>>
    /\ \A i \in DOMAIN validatePatch(p) : validatePatch(p)[i].severity = "warning"

\* C14: a save of a patch whose validation gives warnings and no error
\* returns a location; the file there holds the patch and the index holds
\* its entry, which points at that location.
C14_WarningsDoNotBlockSave ==
    [][(call'.op = "savePatch" /\ WarningsOnly(call'.args[1]))
       => /\ ~ret'.threw
          /\ ret'.value \in DOMAIN files'
          /\ files'[ret'.value] =
                Json([call'.args[1] EXCEPT !.metadata.modifiedAt = now'])
          /\ LET id == NameId(call'.args[1].metadata.name)
             IN  /\ MapHas(libraryIndex', id)
                 /\ MapGet(libraryIndex', id).filePath = ret'.value
                 /\ \E e \in Range(indexFile'.value) : e.id = id]_vars

C14_Witness ==
    /\ call.op = "savePatch"
    /\ WarningsOnly(call.args[1])
    /\ ~ret.threw
    /\ ret.value \in DOMAIN files

Analysed == call.op = "analyzeConnectivity"

Flagged(report, component) ==
    \E i \in DOMAIN report.unconnectedPins :
        report.unconnectedPins[i].componentId = component.id

Referenced(p, component) ==
    \E net \in Range(p.nets) : \E e \in Range(net.connections) :
        e.componentId = component.id

\* C15: the unconnected-pin list of analyzeConnectivity has an entry for a
\* component exactly when no net of the patch references the component.
C15_FlaggedIffUnreferenced ==
    Analysed
    => \A c \in Range(editedPatch.components) :
          Flagged(ret.value, c) <=> ~Referenced(editedPatch, c)

\* the patch of two components, each with two pin slots, and one net from a
\* pin of the one to a pin of the other
TwoComponentsOneNet ==
    /\ Len(editedPatch.components) = 2
    /\ {c.id : c \in Range(editedPatch.components)} = {<<"r">>, <<"d">>}
    /\ Len(editedPatch.nets) = 1
    /\ {<<e.componentId, e.pinName>> : e \in Range(editedPatch.nets[1].connections)}
          = {<<<<"r">>, Pin1>>, <<<<"d">>, Pin1>>}
    /\ Len(editedPatch.nets[1].connections) = 2

CountsRight ==
    /\ ret.value.componentCount = Len(editedPatch.components)
    /\ ret.value.netCount = Len(editedPatch.nets)

ReportedSlots(p) ==
    {<<validatePatch(p)[i].componentId, validatePatch(p)[i].pinId>> :
        i \in {j \in DOMAIN validatePatch(p) :
                  validatePatch(p)[j].type = "unconnected-pin"}}
ReportedComponents(p) ==
    {findUnconnectedPins(p)[i].componentId : i \in DOMAIN findUnconnectedPins(p)}
ReportedFloating(p) ==
    {validatePatch(p)[i].netId :
        i \in {j \in DOMAIN validatePatch(p) : validatePatch(p)[j].type = "floating-net"}}
ReportedFloatingNets(p) ==
    {findFloatingNets(p)[i].netId : i \in DOMAIN findFloatingNets(p)}

NetPushed ==
    /\ call'.op = "edit"
    /\ Len(editedPatch'.nets) = Len(editedPatch.nets) + 1
PushedNet == editedPatch'.nets[Len(editedPatch'.nets)]

EndpointRemoved(k) ==
    /\ call'.op = "edit"
    /\ Len(editedPatch'.nets) = Len(editedPatch.nets)
    /\ Len(editedPatch'.nets[k].connections) < Len(editedPatch.nets[k].connections)

\* C17 for validatePatch: a reported pin slot that is an endpoint of a net
\* pushed onto the patch is reported no longer, and no slot is newly reported.
PushKeepsValidateMonotone ==
    NetPushed
    => /\ \A slot \in ReportedSlots(editedPatch) :
            (\E e \in Range(PushedNet.connections) :
                e.componentId = slot[1] /\ e.pinName = slot[2])
            => slot \notin ReportedSlots(editedPatch')
       /\ ReportedSlots(editedPatch') \subseteq ReportedSlots(editedPatch)

\* C17 for findUnconnectedPins, whose entries name a component
PushKeepsAnalysisMonotone ==
    NetPushed
    => /\ \A id \in ReportedComponents(editedPatch) :
            (\E e \in Range(PushedNet.connections) : e.componentId = id)
            => id \notin ReportedComponents(editedPatch')
       /\ ReportedComponents(editedPatch') \subseteq ReportedComponents(editedPatch)

\* C17 for the floating-net reports: a net left with fewer than two
\* endpoints is reported by both checks.
RemovalReportsFloating ==
    \A k \in DOMAIN editedPatch.nets :
        (EndpointRemoved(k) /\ Len(editedPatch'.nets[k].connections) < 2)
        => /\ editedPatch'.nets[k].id \in ReportedFloating(editedPatch')
           /\ editedPatch'.nets[k].id \in ReportedFloatingNets(editedPatch')

\* C17: pushing a net that has a reported pin as an endpoint takes the pin
\* out of the unconnected-pin report and adds no pin to it, in validatePatch
\* and in findUnconnectedPins; taking endpoints off a net until fewer than two
\* are left puts the net into the floating-net report.
C17_ValidationMonotone ==
    [][/\ PushKeepsValidateMonotone
       /\ PushKeepsAnalysisMonotone
       /\ RemovalReportsFloating]_vars

(***************************************************************************)
(* Properties of extraction, continued.                                    *)
(***************************************************************************)
\* the connection records that are the first of their identifier, in order
FirstRecordsInOrder ==
    LET numbered == [i \in DOMAIN connections |-> [i |-> i, conn |-> connections[i]]]
        firsts == SelectSeq(numbered, LAMBDA r : r.i \in FirstRecords)
    IN  [k \in DOMAIN firsts |-> firsts[k].conn]

SelectedOf(conn) ==
    SelectSeq(conn.connections, LAMBDA e : CompNameOf(e) \in SelectedNames)
AllSelected(conn) ==
    SelectedOf(conn) # <<>> /\ Len(SelectedOf(conn)) = Len(conn.connections)
Crossing(conn) ==
    SelectedOf(conn) # <<>> /\ Len(SelectedOf(conn)) < Len(conn.connections)

\* the nets and the pins of the extracted patch, as identifier, name and
\* endpoint strings
NetsProduced ==
    [k \in DOMAIN extracted.nets |->
        <<extracted.nets[k].id, extracted.nets[k].name,
          IF call.op = "extract" THEN extracted.nets[k].connections
          ELSE [j \in DOMAIN extracted.nets[k].connections |->
                  Endpoint(extracted.nets[k].connections[j].componentId,
                           extracted.nets[k].connections[j].pinName)]>>]
PinsProduced ==
    [k \in DOMAIN extracted.interfacePins |->
        <<PinNet(extracted.interfacePins[k]), extracted.interfacePins[k].name>>]

NetsExpected(records) ==
    LET inside == SelectSeq(records, AllSelected)
    IN  [k \in DOMAIN inside |->
            <<inside[k].id, inside[k].net, inside[k].connections>>]
PinsExpected(records) ==
    LET crossing == SelectSeq(records, Crossing)
    IN  Flatten([k \in DOMAIN crossing |->
                    [j \in DOMAIN SelectedOf(crossing[k]) |->
                        <<crossing[k].net, SelectedOf(crossing[k])[j]>>]])

\* the example of three components and two connections
ExampleABC ==
       (/\ components = ComponentsABC
           /\ connections = ConnectionsABC
           /\ selectedIds = {<<"a">>, <<"b">>})
          => /\ NetsProduced =
                  <<<<<<"k", "1">>, <<"N", "1">>,
                      <<Endpoint(<<"A">>, <<"1">>), Endpoint(<<"B">>, <<"1">>)>>>>>>
             /\ PinsProduced = <<<<<<"N", "2">>, Endpoint(<<"B">>, <<"2">>)>>>>
             /\ [i \in DOMAIN extracted.components |-> extracted.components[i].name]
                  = <<<<"A">>, <<"B">>>>

\* C18: the extracted patch has one internal net, with all its endpoints, for
\* each connection record, first of its identifier, whose endpoints are all
\* selected, one interface pin for each selected endpoint of each such
\* record that has endpoints on both sides, and nothing else; for A, B, C
\* with A.1-B.1 and B.2-C.1 and the selection {A, B} that is the net
\* A.1-B.1, the pin B.2 and the components A and B.
C18_ExtractionClasses ==
    Extracted
    => /\ NetsProduced = NetsExpected(FirstRecordsInOrder)
       /\ PinsProduced = PinsExpected(FirstRecordsInOrder)
       /\ ExampleABC

\* C18 as stated, for every connection record of the diagram
C18_ExtractionClassesAllRecords ==
    Extracted
    => /\ NetsProduced = NetsExpected(connections)
       /\ PinsProduced = PinsExpected(connections)
       /\ ExampleABC

C18_Witness ==
    /\ Extracted
    /\ connections = ConnectionsFanOut
    /\ Len(extracted.interfacePins) = 3
    /\ extracted.nets = <<>>

(***************************************************************************)
(* Properties of failed reads.                                             *)
(***************************************************************************)
\* the index keys the call just made writes: the name-derived id of the
\* patch it saves, the id it deletes, both ids of an import
OwnIds ==
    CASE call'.op = "savePatch" -> {NameId(call'.args[1].metadata.name)}
      [] call'.op = "deletePatch" -> {call'.args[1]}
      [] call'.op = "importPatch" ->
            IF call'.args[1] \in DOMAIN files /\ files[call'.args[1]].kind = "json"
            THEN {NameId(files[call'.args[1]].value.metadata.name), TimeId(now')}
            ELSE {}
      [] OTHER -> {}

LoadOfMissingFile ==
    /\ call'.op = "loadPatch"
    /\ nCalls' = nCalls + 1
    /\ call'.args[1] \notin DOMAIN files

Failed == nCalls' = nCalls + 1 /\ (ret'.threw \/ ret'.failed # "none")

OtherEntriesKept ==
    \A i \in DOMAIN libraryIndex :
        libraryIndex[i].id \notin OwnIds
        => /\ MapHas(libraryIndex', libraryIndex[i].id)
           /\ MapGet(libraryIndex', libraryIndex[i].id) = libraryIndex[i]

\* C19: loadPatch of a path where there is no file throws and leaves the
\* in-memory index, the index file, the patch files and the backups as they
\* were; a call that fails leaves every index entry under another key than
\* its own in the in-memory index, unchanged; a new instance that cannot
\* read the index file leaves that file, the patch files and the backups alone.
C19_FailedLoadChangesNothing ==
    [][/\ LoadOfMissingFile
          => ret'.threw /\ UNCHANGED <<files, backups, libraryIndex, indexFile>>
       /\ Failed => OtherEntriesKept
       /\ (call'.op = "new" /\ nCalls' = nCalls + 1 /\ indexFile.kind # "json")
          => UNCHANGED <<files, backups, indexFile>>]_vars

C19_Witness ==
    /\ call.op = "loadPatch"
    /\ call.args[1] = MissingPath
    /\ ret.threw
    /\ libraryIndex # <<>>
    /\ indexFile = Json(libraryIndex)

(***************************************************************************)
(* Properties of import.                                                   *)
(***************************************************************************)
Imported == call.op = "importPatch" /\ ~ret.threw
ImportCompletes == nCalls' = nCalls + 1 /\ Imported'

\* C20: the entry a completed importPatch returns is keyed by the time of
\* the call, which is not the key derived from the patch's name; the index
\* holds that entry under that key; its file path is a file in the patch
\* directory that holds the patch that was read, with the time of the call
\* as its modification time, and is the path in the entry written by the
\* save inside the import.
C20_ImportEntry ==
    [][ImportCompletes
       => /\ ret'.value.id = TimeId(now')
          /\ ret'.value.id # NameId(ret'.value.name)
          /\ MapHas(libraryIndex', ret'.value.id)
          /\ MapGet(libraryIndex', ret'.value.id) = ret'.value
          /\ ret'.value.filePath.dir = "patchDir"
          /\ ret'.value.filePath \in DOMAIN files'
          /\ files'[ret'.value.filePath] =
                Json([files[call'.args[1]].value EXCEPT !.metadata.modifiedAt = now'])
          /\ ret'.value.name = files[call'.args[1]].value.metadata.name
          /\ MapHas(libraryIndex', NameId(ret'.value.name))
          /\ MapGet(libraryIndex', NameId(ret'.value.name)).filePath
                = ret'.value.filePath]_vars

C20_Witness ==
    /\ Imported
    /\ call.args[1].dir = "ext"
    /\ Len(libraryIndex) >= 2

(***************************************************************************)
(* Properties of insertion followed by extraction.                         *)
(***************************************************************************)
\* every endpoint of every net names a component of the patch, by its id or
\* by its name
NetsNameComponents(patch) ==
    \A k \in DOMAIN patch.nets : \A c \in Range(patch.nets[k].connections) :
        \E d \in Range(patch.components) : c.componentId \in {d.id, d.name}

\* the extraction of the components the last insertion added
ExtractionOfAdded ==
    extractPatchFromSchematic(components, connections,
                              {d.id : d \in AddedComponents}, <<"P">>, now)

\* C21: after a patch whose nets name its own components is inserted, the
\* owner part of every endpoint of every added connection is the name of a
\* component of the diagram, and the extraction of the added components has
\* an internal net for every added connection.
C21_InsertedEndpointsJoinByName ==
    (Inserted /\ NetsNameComponents(call.args[1]))
    => /\ \A k \in AddedConnections : \A e \in Range(k.connections) :
             \E d \in Range(components) : d.name = CompNameOf(e)
       /\ \A k \in AddedConnections :
             \E n \in Range(ExtractionOfAdded.nets) : n.id = k.id

(***************************************************************************)
(* Properties of the island count.                                         *)
(***************************************************************************)
\* the declared pin slots of p, as (component id, property key) pairs
Slots(p) ==
    UNION {{<<c.id, c.properties[k].key>> : k \in DOMAIN c.properties}
            : c \in Range(p.components)}
PinSlots(p) == {s \in Slots(p) : StartsWith(s[2], PinPrefix)}

\* the pairs of endpoints that are next to each other on a net
ChainPairs(p) ==
    UNION {{<<<<net.connections[i].componentId, net.connections[i].pinName>>,
              <<net.connections[i + 1].componentId, net.connections[i + 1].pinName>>>>
             : i \in 1..(Len(net.connections) - 1)} : net \in Range(p.nets)}

\* the nodes joined to the nodes in `reached` by a path of pairs that stays
\* inside nodes
RECURSIVE Closure(_, _, _)
Closure(nodes, pairs, reached) ==
    LET next == reached \cup
                {n \in nodes : \E m \in reached : <<m, n>> \in pairs \/ <<n, m>> \in pairs}
    IN  IF next = reached THEN reached ELSE Closure(nodes, pairs, next)

\* the number of connected components of the undirected graph (nodes, pairs)
Islands(nodes, pairs) == Cardinality({Closure(nodes, pairs, {n}) : n \in nodes})

\* C22: the subgraphCount of analyzeConnectivity is the number of connected
\* components of the graph whose nodes are the declared pin slots and whose
\* edges join the endpoints next to each other on a net; it is 0 for a patch
\* without pin slots.
C22_IslandCount ==
    Analysed
    => /\ ret.value.subgraphCount
             = Islands(PinSlots(editedPatch), ChainPairs(editedPatch))
       /\ PinSlots(editedPatch) = {} => ret.value.subgraphCount = 0

C22_Witness ==
    /\ Analysed
    /\ ret.value.subgraphCount = 3
    /\ \E net \in Range(editedPatch.nets) : Len(net.connections) = 3

(***************************************************************************)
(* Properties of extraction from a diagram with repeated identifiers.      *)
(***************************************************************************)
\* the extraction just made, made again from the diagram without the
\* records that repeat an earlier identifier
ExtractedFromFirstRecords ==
    IF call.op = "extract"
    THEN extractPatchFromSchematic(components, FirstRecordsInOrder,
                                   call.args[1], call.args[2], now)
    ELSE extractPatchFromSchematicClient(components, FirstRecordsInOrder,
                                         call.args[1], call.args[2], now)

\* the records that repeat an earlier identifier
LaterRecords == DOMAIN connections \ FirstRecords

\* C23: every internal net and every interface pin of an extracted patch
\* comes from the first record of a connection identifier, no identifier
\* gives more than one net, and the patch is the one extracted from the
\* diagram without the records that repeat an earlier identifier.
C23_EachIdentifierOnce ==
    Extracted
    => /\ extracted = ExtractedFromFirstRecords
       /\ NetsProduced = NetsExpected(FirstRecordsInOrder)
       /\ PinsProduced = PinsExpected(FirstRecordsInOrder)
       /\ \A i, j \in DOMAIN extracted.nets :
             i # j => extracted.nets[i].id # extracted.nets[j].id

C23_Witness ==
    /\ Extracted
    /\ \E i \in LaterRecords : SelectedOf(connections[i]) # <<>>
    /\ Len(extracted.nets) + Len(extracted.interfacePins) > 0

(***************************************************************************)
(* Properties of two instances over one index file.                        *)
(***************************************************************************)
\* the entries index.json holds
DurableEntries(file) == IF file.kind = "json" THEN Range(file.value) ELSE {}

\* the index key a save or a delete is about
KeyOfCall(c) ==
    IF c.op \in {"savePatch", "global.savePatch"}
    THEN NameId(c.args[1].metadata.name)
    ELSE c.args[1]

\* the entries in index.json that the instance which does not make the
\* call has set by a save
SavedByOther ==
    {e \in DurableEntries(indexFile) :
        /\ e.id = NameId(e.name)
        /\ e \in Range(IF call'.op \in {"global.savePatch", "global.deletePatch"}
                       THEN libraryIndex ELSE globalIndex)}

\* C24: a save or a delete made on one of two instances over the same index
\* file leaves in the file every entry that a save on the other instance
\* put there and that is under another key than the call's.
C24_NoLostIndexUpdate ==
    [][(/\ nCalls' = nCalls + 1
        /\ call'.op \in {"savePatch", "deletePatch",
                         "global.savePatch", "global.deletePatch"})
       => \A e \in SavedByOther :
             e.id # KeyOfCall(call') => e \in DurableEntries(indexFile')]_vars

C26_FailedDeleteKeepsIndex ==
    [][(/\ call'.op = "deletePatch"
        /\ nCalls' = nCalls + 1
        /\ ~ret'.value)
       => libraryIndex' = libraryIndex]_vars

(***************************************************************************)
(* Properties of the island count, continued.                              *)
(***************************************************************************)
\* the pairs of distinct endpoints of the same net
MeshPairs(p) ==
    UNION {{<<<<net.connections[i].componentId, net.connections[i].pinName>>,
              <<net.connections[j].componentId, net.connections[j].pinName>>>>
             : i, j \in DOMAIN net.connections} : net \in Range(p.nets)}

\* C27: the subgraphCount of analyzeConnectivity, which is computed from
\* the edges between endpoints next to each other on a net, is the number
\* of connected components of the graph on the declared pin slots in which
\* every two endpoints of a net are joined.
C27_ChainEqualsMesh ==
    Analysed
    => ret.value.subgraphCount
          = Islands(PinSlots(editedPatch), MeshPairs(editedPatch))

(***************************************************************************)
(* Properties of component names under insertion.                          *)
(***************************************************************************)
UniqueNames(seq) ==
    \A i, j \in DOMAIN seq : i # j => seq[i].name # seq[j].name

\* C28: an insertion into a diagram whose component names are all distinct
\* leaves a diagram whose component names are all distinct.
C28_InsertionKeepsNamesUnique ==
    [][(/\ Inserted'
        /\ nCalls' = nCalls + 1
        /\ UniqueNames(components))
       => UniqueNames(components')]_vars

(***************************************************************************)
(* Properties of the validation of an extracted patch.                     *)
(***************************************************************************)
ExtractedValidated == call.op = "validateExtractedPatch"

\* C29: validateExtractedPatch finds the patch that extractPatchFromSchematic
\* returned valid, without errors: the owner of every endpoint of its nets
\* and of every interface pin is the name of a component of the patch.
C29_ExtractedPatchIsValid ==
    ExtractedValidated
    => /\ ret.value.valid
       /\ ret.value.errors = <<>>
       /\ \A k \in DOMAIN extracted.nets :
             \A e \in Range(extracted.nets[k].connections) :
                \E c \in Range(extracted.components) : c.name = CompNameOf(e)
       /\ \A k \in DOMAIN extracted.interfacePins :
             \E c \in Range(extracted.components) :
                c.name = CompNameOf(extracted.interfacePins[k].name)

C29_Witness ==
    /\ ExtractedValidated
    /\ Len(extracted.nets) >= 1
    /\ Len(extracted.interfacePins) >= 1
    /\ Len(extracted.components) = 2

(***************************************************************************)
(* Properties of the project structure.                                    *)
(***************************************************************************)
StructureListed == call.op = "getProjectStructure" /\ manifest # <<>>

PathsListed ==
    [i \in DOMAIN ret.value.patches |-> ret.value.patches[i].path]

\* C30: the patches of getProjectStructure() are as many as the paths in
\* the manifest's patch list, their paths are those paths, and each path is
\* the path of one patch.
C30_StructureMatchesManifest ==
    StructureListed
    => /\ Len(PathsListed) = Len(manifest[1].patches)
       /\ Range(PathsListed) = Range(manifest[1].patches)
       /\ \A i, j \in DOMAIN PathsListed : i # j => PathsListed[i] # PathsListed[j]
====
